---------------------------- MODULE Spec2Model ----------------------------
(***************************************************************************)
(* FlexiMart ETL pipeline (part1-database-etl/etl_pipeline.py).            *)
(*                                                                         *)
(* A DataFrame is a record [cols, rows]: cols is the set of column names   *)
(* the frame has, rows the sequence of its rows.  A row carries idx, the   *)
(* pandas index label read_csv gave it (0-based); drop_duplicates and      *)
(* dropna keep the labels of the rows they keep.                           *)
(*                                                                         *)
(* A string is a sequence of one-character strings.  A string cell is      *)
(* [na, v]: na is TRUE for NaN, v the characters.  A numeric cell is       *)
(* [na, v] with v an integer counting HALF units (v = 2 * value), so that  *)
(* the median of two whole numbers is exact.                               *)
(*                                                                         *)
(* Columns whose normalizers act cell by cell and decide neither the rows  *)
(* kept nor any other column (first_name, last_name, phone, city,          *)
(* registration_date, product_name, category) are present in cols only.    *)
(***************************************************************************)
EXTENDS Integers, Sequences, FiniteSets, TLC

VARIABLES
    pc,              \* the statement of main() that runs next
    dbenv,           \* what the database does at each load of this run
    db,              \* the database: its tables and the rows they hold
    customers_raw_csv, \* contents of data/customers_raw.csv
    products_raw_csv,  \* contents of data/products_raw.csv
    sales_raw_csv,     \* contents of data/sales_raw.csv
    customers_raw,   \* extract_raw_data: frame read from customers_raw.csv
    products_raw,    \* frame read from products_raw.csv
    sales_raw,       \* frame read from sales_raw.csv
    customers,       \* the copy of customers_raw handed to clean_customers
    products,        \* the copy of products_raw handed to clean_products
    sales,           \* the copy of sales_raw handed to clean_sales
    customers_clean, \* value returned by clean_customers
    products_clean,  \* value returned by clean_products
    sales_clean,     \* value returned by clean_sales
    orders,          \* value returned by split_orders
    order_items,     \* value returned by split_sales_to_order_items
    orders_csv,      \* contents of data/orders.csv
    order_items_csv, \* contents of data/order_items.csv
    dblog,           \* the statements issued to the database, in order
    report           \* the metrics written to data_quality_report.txt

vars == <<pc, dbenv, db, customers_raw_csv, products_raw_csv, sales_raw_csv,
          customers_raw, products_raw, sales_raw, customers, products,
          sales, customers_clean, products_clean, sales_clean, orders,
          order_items, orders_csv, order_items_csv, dblog, report>>

---------------------------------------------------------------------------
(* Bounds of the model: the number of rows a raw file holds.               *)

MaxCustomers == 2

MaxProducts == 3

MaxSales == 2

---------------------------------------------------------------------------
(* Cells and strings.                                                      *)

NA == [na |-> TRUE, v |-> <<>>]

Str(s) == [na |-> FALSE, v |-> s]

NaN == [na |-> TRUE, v |-> 0]

Num(n) == [na |-> FALSE, v |-> 2 * n]

Whitespace == {" "}

RECURSIVE lstrip(_)
lstrip(s) ==
    IF s /= <<>> /\ Head(s) \in Whitespace THEN lstrip(Tail(s)) ELSE s

RECURSIVE rstrip(_)
rstrip(s) ==
    IF s /= <<>> /\ s[Len(s)] \in Whitespace
    THEN rstrip(SubSeq(s, 1, Len(s) - 1))
    ELSE s

\* str.strip()
strip(s) == rstrip(lstrip(s))

\* str(val) of a cell: NaN prints as "nan"
str(val) == IF val.na THEN <<"n", "a", "n">> ELSE val.v

\* strip_id_prefix: NaN stays NaN, otherwise str(val)[1:]
strip_id_prefix(val) ==
    IF val.na THEN NA
    ELSE Str(IF val.v = <<>> THEN <<>> ELSE Tail(val.v))

UpperCase ==
    <<"A", "B", "C", "D", "E", "F", "G", "H", "I", "J", "K", "L", "M", "N",
      "O", "P", "Q", "R", "S", "T", "U", "V", "W", "X", "Y", "Z">>

LowerCase ==
    <<"a", "b", "c", "d", "e", "f", "g", "h", "i", "j", "k", "l", "m", "n",
      "o", "p", "q", "r", "s", "t", "u", "v", "w", "x", "y", "z">>

IsLetter(c) == \E k \in 1..26 : UpperCase[k] = c \/ LowerCase[k] = c

ToLower(c) ==
    IF \E k \in 1..26 : UpperCase[k] = c
    THEN LowerCase[CHOOSE k \in 1..26 : UpperCase[k] = c] ELSE c

ToUpper(c) ==
    IF \E k \in 1..26 : LowerCase[k] = c
    THEN UpperCase[CHOOSE k \in 1..26 : LowerCase[k] = c] ELSE c

\* str.lower()
lower(s) == [i \in 1..Len(s) |-> ToLower(s[i])]

\* str.title(): a letter that follows no letter is upper case, every other
\* letter lower case
title(s) ==
    [i \in 1..Len(s) |->
        IF i = 1 \/ ~IsLetter(s[i - 1]) THEN ToUpper(s[i]) ELSE ToLower(s[i])]

\* sub in s
contains(s, sub) ==
    \E i \in 0..(Len(s) - Len(sub)) : SubSeq(s, i + 1, i + Len(sub)) = sub

\* normalize_category_name testing 'fashion' before 'electronic'
normalize_category_name_fashion_first(cat) ==
    LET result(c) ==
            IF contains(c, <<"f", "a", "s", "h", "i", "o", "n">>) THEN <<"F", "a", "s", "h", "i", "o", "n">>
            ELSE IF contains(c, <<"e", "l", "e", "c", "t", "r", "o", "n", "i", "c">>) THEN <<"E", "l", "e", "c", "t", "r", "o", "n", "i", "c", "s">>
            ELSE IF contains(c, <<"g", "r", "o", "c", "e", "r">>) THEN <<"G", "r", "o", "c", "e", "r", "i", "e", "s">>
            ELSE title(c)
    IN  IF cat.na THEN NA
        ELSE Str(CHOOSE out \in {result(c) : c \in {lower(strip(cat.v))}} :
                     TRUE)

\* normalize_category_name: None for NaN; else by the first keyword the
\* stripped lower-case name contains, or its title case
normalize_category_name(cat) ==
    LET result(c) ==
            IF contains(c, <<"e", "l", "e", "c", "t", "r", "o", "n", "i", "c">>) THEN <<"E", "l", "e", "c", "t", "r", "o", "n", "i", "c", "s">>
            ELSE IF contains(c, <<"f", "a", "s", "h", "i", "o", "n">>) THEN <<"F", "a", "s", "h", "i", "o", "n">>
            ELSE IF contains(c, <<"g", "r", "o", "c", "e", "r">>) THEN <<"G", "r", "o", "c", "e", "r", "i", "e", "s">>
            ELSE title(c)
    IN  IF cat.na THEN NA
        ELSE Str(CHOOSE out \in {result(c) : c \in {lower(strip(cat.v))}} :
                     TRUE)

\* Series.str.strip() on one cell: NaN stays NaN
str_strip(val) == IF val.na THEN val ELSE Str(strip(val.v))

\* The rows of a frame with f applied to each (the frame is bound by a
\* set, so it is evaluated once)
MapRows(rows, f(_)) ==
    CHOOSE out \in {[i \in 1..Len(r) |-> f(r[i])] : r \in {rows}} : TRUE

\* The rows i of a frame for which keep(i) holds, in order
KeepRows(rows, keep(_)) ==
    LET F[i \in 0..Len(rows)] ==
            IF i = 0 THEN <<>>
            ELSE IF keep(i) THEN Append(F[i - 1], rows[i]) ELSE F[i - 1]
    IN  CHOOSE out \in {F[Len(rows)]} : TRUE

Range(s) == {s[i] : i \in 1..Len(s)}

NoFrame == [cols |-> {}, rows |-> <<>>]

---------------------------------------------------------------------------
(* Utility functions.                                                      *)

\* Columns pandas holds with dtype object (strings); the others are numeric
ObjectCols ==
    {"customer_id", "product_id", "transaction_id", "email", "status",
     "transaction_date", "category"}

\* trim_string_columns: str.strip() on every object column
trim_string_columns(rows) ==
    MapRows(rows, LAMBDA r :
        [c \in DOMAIN r |-> IF c \in ObjectCols THEN str_strip(r[c]) ELSE r[c]])

\* drop_duplicates keeping the last row of each value instead of the first
drop_duplicates_keep_last(rows, subset) ==
    KeepRows(rows, LAMBDA i :
        \A j \in (i + 1)..Len(rows) : rows[j][subset] /= rows[i][subset])

\* DataFrame.drop_duplicates(subset=[subset]): the first row of each value
\* of the column is kept (NaN equals NaN), labels and order kept
drop_duplicates(rows, subset) ==
    KeepRows(rows, LAMBDA i :
        \A j \in 1..(i - 1) : rows[j][subset] /= rows[i][subset])

\* dropna dropping nothing
dropna_nothing(rows, subset) == rows

\* DataFrame.dropna(subset=[subset])
dropna(rows, subset) == KeepRows(rows, LAMBDA i : ~rows[i][subset].na)

UnknownEmail ==
    <<"u", "n", "k", "n", "o", "w", "n", "_", "e", "m", "a", "i", "l", "_">>

\* impute_missing_email testing for null only, not for ''
impute_missing_email_null_only(rows) ==
    MapRows(rows, LAMBDA r :
        IF r.email.na
        THEN [r EXCEPT !.email = Str(UnknownEmail \o str(r.customer_id))]
        ELSE r)

\* impute_missing_email: f"unknown_email_{row['customer_id']}" where the
\* email is null or ''
impute_missing_email(rows) ==
    MapRows(rows, LAMBDA r :
        IF r.email.na \/ r.email.v = <<>>
        THEN [r EXCEPT !.email = Str(UnknownEmail \o str(r.customer_id))]
        ELSE r)

\* The non-null values of a numeric column, in row order
Present(rows, col) ==
    LET kept == KeepRows(rows, LAMBDA i : ~rows[i][col].na)
    IN  [i \in 1..Len(kept) |-> kept[i][col].v]

\* Series.median(): NaN skipped; the middle value, or the mean of the two
\* middle values; NaN when no value is present
median(rows, col) ==
    LET s == SortSeq(Present(rows, col), LAMBDA a, b : a < b)
        n == Len(s)
    IN  IF n = 0 THEN NaN
        ELSE IF n % 2 = 1 THEN [na |-> FALSE, v |-> s[(n + 1) \div 2]]
        ELSE [na |-> FALSE, v |-> (s[n \div 2] + s[n \div 2 + 1]) \div 2]

\* Series.fillna(value) on one column
fillna(rows, col, value) ==
    MapRows(rows, LAMBDA r :
        IF r[col].na THEN [r EXCEPT ![col] = value] ELSE r)

\* impute_product_data_median
impute_product_data_median(rows) ==
    LET p == fillna(rows, "price", median(rows, "price"))
    IN  fillna(p, "stock_quantity", median(p, "stock_quantity"))

---------------------------------------------------------------------------
(* Load functions.  A load issues its statements on a connection of its    *)
(* own, in one transaction: what it deleted and inserted is persisted by   *)
(* its commit and by nothing else.  dbenv gives, per table, what goes      *)
(* wrong at the load of that table in this run:                            *)
(*   "ok"      nothing                                                     *)
(*   "noconn"  connect_to_db returns None                                  *)
(*   "cursor"  conn.cursor() raises                                        *)
(*   "create"  a CREATE TABLE raises (customers load only)                 *)
(*   "delete"  the first DELETE raises                                     *)
(*   "error"   the bulk INSERT raises                                      *)
(*   "commit"  conn.commit() raises                                        *)
(* Besides these the database itself refuses a DELETE on a table that does *)
(* not exist or whose rows are referenced, and an INSERT of rows whose     *)
(* parent table is empty.                                                  *)

Tables == {"customers", "products", "orders", "order_items"}

DbOutcomes ==
    {"ok", "noconn", "cursor", "create", "delete", "error", "commit"}

\* FOREIGN KEY (...) REFERENCES t: the tables whose rows reference table t
Children(t) ==
    IF t = "customers" THEN {"orders"}
    ELSE IF t \in {"orders", "products"} THEN {"order_items"}
    ELSE {}

\* The tables the rows of table t reference
Parents(t) == {p \in Tables : t \in Children(p)}

\* A database is [schema, rows]: schema tells whether the four tables
\* exist; rows[t] is "none" (no row), "old" (the rows an earlier run
\* committed) or "new" (the rows this run committed)
Contents == {"none", "old", "new"}

\* connect_to_db: the connection, or None
connect_to_db(outcome) ==
    IF outcome = "noconn" THEN << <<"connect", "failed">> >>
    ELSE << <<"connect", "ok">> >>

\* initialize_db_tables: CREATE TABLE IF NOT EXISTS for the four tables;
\* an error of a statement is logged and swallowed
initialize_db_tables(database, outcome) ==
    IF outcome = "create"
    THEN [log |-> << <<"CREATE TABLE failed", "all">> >>, db |-> database]
    ELSE [log |-> << <<"CREATE TABLE IF NOT EXISTS", "all">> >>,
          db  |-> [database EXCEPT !.schema = TRUE]]

\* cursor.execute("DELETE FROM t") for each t of deletes, in order, up to
\* the first that raises; view is what the transaction sees in each table
RECURSIVE execute_deletes(_, _, _, _)
execute_deletes(deletes, schema, view, fail) ==
    IF deletes = <<>> THEN [log |-> <<>>, view |-> view, ok |-> TRUE]
    ELSE LET t == Head(deletes)
         IN  IF fail \/ ~schema \/ \E c \in Children(t) : view[c] /= "none"
             THEN [log  |-> << <<"DELETE failed", t>> >>,
                   view |-> view, ok |-> FALSE]
             ELSE LET rest == execute_deletes(Tail(deletes), schema,
                                              [view EXCEPT ![t] = "none"],
                                              FALSE)
                  IN  [log  |-> << <<"DELETE", t>> >> \o rest.log,
                       view |-> rest.view, ok |-> rest.ok]

\* One load_data_to_*_db call: [log, raised, db], log the statements it
\* issued, raised whether an exception left the function, db the database
\* it leaves.  Nothing is done for an empty frame.
load(rows, table, create, deletes, outcome, database) ==
    IF rows = <<>>
    THEN [log |-> <<>>, raised |-> FALSE, db |-> database]
    ELSE IF outcome = "noconn"
    THEN [log |-> connect_to_db(outcome), raised |-> FALSE, db |-> database]
    ELSE IF outcome = "cursor"
    THEN [log    |-> connect_to_db(outcome) \o << <<"cursor failed", table>> >>,
          raised |-> TRUE, db |-> database]
    ELSE
    LET made   == IF create THEN initialize_db_tables(database, outcome)
                  ELSE [log |-> <<>>, db |-> database]
        del    == execute_deletes(deletes, made.db.schema, made.db.rows,
                                  outcome = "delete")
        orphan == \E p \in Parents(table) : del.view[p] = "none"
        insert == IF ~del.ok THEN <<>>
                  ELSE IF outcome = "error" \/ orphan
                  THEN << <<"INSERT failed", table>> >>
                  ELSE IF outcome = "commit"
                  THEN << <<"INSERT", table>>, <<"commit failed", table>> >>
                  ELSE << <<"INSERT", table>>, <<"commit", table>> >>
        done   == del.ok /\ ~orphan /\ outcome \notin {"error", "commit"}
    IN  [log    |-> connect_to_db(outcome) \o made.log \o del.log \o insert
                    \o << <<"close", table>> >>,
         raised |-> FALSE,
         db     |-> IF done
                    THEN [made.db EXCEPT
                              !.rows = [del.view EXCEPT ![table] = "new"]]
                    ELSE made.db]

load_data_to_customers_db(rows, outcome, database) ==
    load(rows, "customers", TRUE, <<"order_items", "orders", "customers">>,
         outcome, database)

load_data_to_products_db(rows, outcome, database) ==
    load(rows, "products", FALSE, <<"order_items", "products">>, outcome,
         database)

load_data_to_orders_db(rows, outcome, database) ==
    load(rows, "orders", FALSE, <<"orders">>, outcome, database)

load_data_to_order_items_db(rows, outcome, database) ==
    load(rows, "order_items", FALSE, <<"order_items">>, outcome, database)

---------------------------------------------------------------------------
(* Cleaners.  Each returns [ok, rows]: ok is FALSE when the cleaner raised *)
(* (a column it reads is absent) and returned from its except clause.      *)

CustomerCols ==
    {"customer_id", "first_name", "last_name", "email", "phone", "city",
     "registration_date"}

ProductCols ==
    {"product_id", "product_name", "category", "price", "stock_quantity"}

Failed == [ok |-> FALSE, rows |-> <<>>]

Done(rows) == [ok |-> TRUE, rows |-> rows]

\* clean_customers, up to the frame it returns and loads
clean_customers(df) ==
    IF ~(CustomerCols \subseteq df.cols) THEN Failed
    ELSE
    LET stripped == MapRows(df.rows, LAMBDA r :
                        [r EXCEPT !.customer_id = strip_id_prefix(@)])
        trimmed  == trim_string_columns(stripped)
        deduped  == drop_duplicates(trimmed, "customer_id")
        imputed  == impute_missing_email(deduped)
    IN  Done(trim_string_columns(imputed))

\* clean_products imputing the medians before it drops the duplicates
clean_products_impute_first(df) ==
    IF ~(ProductCols \subseteq df.cols) THEN Failed
    ELSE
    LET stripped == MapRows(df.rows, LAMBDA r :
                        [r EXCEPT !.product_id = strip_id_prefix(@)])
        trimmed  == trim_string_columns(stripped)
        imputed  == impute_product_data_median(trimmed)
        deduped  == drop_duplicates(imputed, "product_id")
        named    == MapRows(deduped, LAMBDA r :
                        [r EXCEPT !.category = normalize_category_name(@)])
    IN  Done(trim_string_columns(named))

\* clean_products, up to the frame it returns and loads
clean_products(df) ==
    IF ~(ProductCols \subseteq df.cols) THEN Failed
    ELSE
    LET stripped == MapRows(df.rows, LAMBDA r :
                        [r EXCEPT !.product_id = strip_id_prefix(@)])
        trimmed  == trim_string_columns(stripped)
        deduped  == drop_duplicates(trimmed, "product_id")
        imputed  == impute_product_data_median(deduped)
        named    == MapRows(imputed, LAMBDA r :
                        [r EXCEPT !.category = normalize_category_name(@)])
    IN  Done(trim_string_columns(named))

---------------------------------------------------------------------------
(* normalize_date_format.  datetime.strptime matches the whole string      *)
(* against the format: %Y is four digits, %m one or two digits in 1..12,   *)
(* %d one or two digits in 1..31, and the date must exist.                 *)

Digits == <<"0", "1", "2", "3", "4", "5", "6", "7", "8", "9">>

IsDigit(c) == \E k \in 1..10 : Digits[k] = c

DigitVal(c) == (CHOOSE k \in 1..10 : Digits[k] = c) - 1

\* int(f) of a string of digits
IntOf(f) ==
    LET F[i \in 0..Len(f)] ==
            IF i = 0 THEN 0 ELSE 10 * F[i - 1] + DigitVal(f[i])
    IN  F[Len(f)]

AllDigits(f) == f /= <<>> /\ \A i \in 1..Len(f) : IsDigit(f[i])

\* The fields of s between occurrences of sep
Split(s, sep) ==
    LET at     == {i \in 1..Len(s) : s[i] = sep}
        pos(j) == IF j = 0 THEN 0
                  ELSE IF j = Cardinality(at) + 1 THEN Len(s) + 1
                  ELSE CHOOSE i \in at : Cardinality({x \in at : x < i}) = j - 1
    IN  [j \in 1..(Cardinality(at) + 1) |->
            SubSeq(s, pos(j - 1) + 1, pos(j) - 1)]

IsLeap(y) == (y % 4 = 0 /\ y % 100 /= 0) \/ y % 400 = 0

DaysIn(y, m) ==
    IF m = 2 THEN (IF IsLeap(y) THEN 29 ELSE 28)
    ELSE IF m \in {4, 6, 9, 11} THEN 30 ELSE 31

\* Whether field f matches directive d ("Y", "m" or "d")
Matches(f, d) ==
    /\ AllDigits(f)
    /\ IF d = "Y" THEN Len(f) = 4 /\ IntOf(f) >= 1
       ELSE /\ Len(f) \in {1, 2}
            /\ IntOf(f) \in (IF d = "m" THEN 1..12 ELSE 1..31)

\* datetime.strptime(s, fmt): fmt is [sep, order], order the three
\* directives; the result is [ok, y, m, d]
strptime(s, fmt) ==
    LET f  == Split(s, fmt.sep)
        at(d) == f[CHOOSE i \in 1..3 : fmt.order[i] = d]
    IN  IF /\ Len(f) = 3
           /\ \A i \in 1..3 : Matches(f[i], fmt.order[i])
           /\ IntOf(at("d")) <= DaysIn(IntOf(at("Y")), IntOf(at("m")))
        THEN [ok |-> TRUE, y |-> IntOf(at("Y")), m |-> IntOf(at("m")),
              d |-> IntOf(at("d"))]
        ELSE [ok |-> FALSE, y |-> 0, m |-> 0, d |-> 0]

\* strftime('%Y-%m-%d')
strftime(t) ==
    LET dig(n) == Digits[n + 1]
    IN  <<dig(t.y \div 1000), dig((t.y \div 100) % 10), dig((t.y \div 10) % 10),
          dig(t.y % 10), "-", dig(t.m \div 10), dig(t.m % 10), "-",
          dig(t.d \div 10), dig(t.d % 10)>>

\* The format list with '%m/%d/%Y' tried before '%d/%m/%Y'
DateFormats_month_first ==
    << [sep |-> "-", order |-> <<"Y", "m", "d">>],
       [sep |-> "/", order |-> <<"m", "d", "Y">>],
       [sep |-> "-", order |-> <<"m", "d", "Y">>],
       [sep |-> "-", order |-> <<"d", "m", "Y">>],
       [sep |-> "/", order |-> <<"d", "m", "Y">> ] >>

\* ('%Y-%m-%d', '%d/%m/%Y', '%m-%d-%Y', '%d-%m-%Y', '%m/%d/%Y')
DateFormats ==
    << [sep |-> "-", order |-> <<"Y", "m", "d">>],
       [sep |-> "/", order |-> <<"d", "m", "Y">>],
       [sep |-> "-", order |-> <<"m", "d", "Y">>],
       [sep |-> "-", order |-> <<"d", "m", "Y">>],
       [sep |-> "/", order |-> <<"m", "d", "Y">> ] >>

\* pd.to_datetime(date_str, errors='coerce', dayfirst=False) on a string no
\* format matched: year/month/day with slashes is read, anything else of
\* the modelled alphabet is NaT
to_datetime(s) == strptime(s, [sep |-> "/", order |-> <<"Y", "m", "d">>])

\* normalize_date_format: the first format that parses; else the pandas
\* fallback, whose NaT makes strftime raise, which gives NaN.  The parses
\* of the string are bound by a set, so each is evaluated once.
normalize_date_format(val) ==
    LET formatted(date_str, parses) ==
            IF \E k \in 1..Len(parses) : parses[k].ok
            THEN Str(strftime(parses[
                     CHOOSE k \in 1..Len(parses) :
                         /\ parses[k].ok
                         /\ \A h \in 1..(k - 1) : ~parses[h].ok]))
            ELSE IF to_datetime(date_str).ok
            THEN Str(strftime(to_datetime(date_str)))
            ELSE NA
    IN  IF val.na THEN NA
        ELSE CHOOSE out \in
                 {formatted(val.v, parses) :
                     parses \in {<<strptime(val.v, DateFormats[1]),
                                   strptime(val.v, DateFormats[2]),
                                   strptime(val.v, DateFormats[3]),
                                   strptime(val.v, DateFormats[4]),
                                   strptime(val.v, DateFormats[5])>>}} : TRUE

---------------------------------------------------------------------------
(* Sales cleaner and decomposer.                                           *)

\* Columns clean_sales reads
SalesKeyCols ==
    {"transaction_id", "customer_id", "product_id", "transaction_date"}

\* clean_sales: the cleaned frame, or an empty DataFrame when it raised
clean_sales(df) ==
    IF ~(SalesKeyCols \subseteq df.cols) THEN NoFrame
    ELSE
    LET stripped == MapRows(df.rows, LAMBDA r :
                        [r EXCEPT !.customer_id = strip_id_prefix(@),
                                  !.product_id = strip_id_prefix(@),
                                  !.transaction_id = strip_id_prefix(@)])
        trimmed  == trim_string_columns(stripped)
        deduped  == drop_duplicates(trimmed, "transaction_id")
        kept     == dropna(dropna(deduped, "customer_id"), "product_id")
    IN  [cols |-> df.cols,
         rows |-> MapRows(kept, LAMBDA r :
                      [r EXCEPT !.transaction_date = normalize_date_format(@)])]

\* quantity + unit_price instead of their product
times_sum(a, b) ==
    IF a.na \/ b.na THEN NaN ELSE [na |-> FALSE, v |-> a.v + b.v]

\* quantity * unit_price on two numeric cells (half units); NaN propagates
times(a, b) ==
    IF a.na \/ b.na THEN NaN ELSE [na |-> FALSE, v |-> (a.v * b.v) \div 2]

\* DataFrame.drop_duplicates(): a row equal in every column to an earlier
\* row is dropped (the index label is not a column)
drop_duplicate_rows(rows) ==
    KeepRows(rows, LAMBDA i :
        \A j \in 1..(i - 1) :
            [rows[j] EXCEPT !.idx = 0] /= [rows[i] EXCEPT !.idx = 0])

\* Columns split_orders reads
OrderCols ==
    {"transaction_id", "quantity", "unit_price", "customer_id",
     "transaction_date", "status"}

\* split_orders, up to the frame it writes, loads and returns
split_orders(df) ==
    IF ~(OrderCols \subseteq df.cols) THEN Failed
    ELSE Done(drop_duplicate_rows(MapRows(df.rows, LAMBDA r :
             [idx          |-> r.idx,
              order_id     |-> r.transaction_id,
              customer_id  |-> r.customer_id,
              order_date   |-> r.transaction_date,
              total_amount |-> times(r.quantity, r.unit_price),
              status       |-> r.status])))

\* order_items.index + 1
order_item_id(r) == r.idx + 1

\* Columns split_sales_to_order_items reads
OrderItemCols == {"transaction_id", "product_id", "quantity", "unit_price"}

\* split_sales_to_order_items, up to the frame it writes, loads and returns
split_sales_to_order_items(df) ==
    IF ~(OrderItemCols \subseteq df.cols) THEN Failed
    ELSE Done(MapRows(df.rows, LAMBDA r :
             [idx           |-> r.idx,
              order_item_id |-> order_item_id(r),
              order_id      |-> r.transaction_id,
              product_id    |-> r.product_id,
              quantity      |-> r.quantity,
              unit_price    |-> r.unit_price,
              subtotal      |-> times(r.quantity, r.unit_price)]))

---------------------------------------------------------------------------
(* Quality report.                                                         *)

\* The cells of row r under the columns of the frame
Cells(df, r) == {c \in DOMAIN r : c \in df.cols}

\* Row r restricted to the columns of the frame
Visible(df, r) == [c \in Cells(df, r) |-> r[c]]

\* DataFrame.duplicated(): row i equals an earlier row in every column
duplicated(df, i) ==
    \E j \in 1..(i - 1) : Visible(df, df.rows[j]) = Visible(df, df.rows[i])

\* build_quality_report dropping the rows with nulls for every file
build_quality_report_dropna(df, file_name) ==
    LET n       == Len(df.rows)
        dups    == {i \in 1..n : duplicated(df, i)}
        nulls   == {<<i, c>> \in (1..n) \X ObjectCols \cup
                        (1..n) \X {"price", "stock_quantity", "quantity",
                                   "unit_price"} :
                        c \in Cells(df, df.rows[i]) /\ df.rows[i][c].na}
        cleaned == {i \in 1..n :
                       /\ ~duplicated(df, i)
                       /\ \A c \in Cells(df, df.rows[i]) : ~df.rows[i][c].na}
    IN  [file                 |-> file_name,
         records_processed    |-> n,
         duplicates_removed   |-> Cardinality(dups),
         missing_values_handled |-> Cardinality(nulls),
         records_loaded_successfully |-> Cardinality(cleaned)]

\* build_quality_report
build_quality_report(df, file_name) ==
    LET n       == Len(df.rows)
        dups    == {i \in 1..n : duplicated(df, i)}
        nulls   == {<<i, c>> \in (1..n) \X ObjectCols \cup
                        (1..n) \X {"price", "stock_quantity", "quantity",
                                   "unit_price"} :
                        c \in Cells(df, df.rows[i]) /\ df.rows[i][c].na}
        deduped == {i \in 1..n : ~duplicated(df, i)}
        cleaned == IF file_name \in {"customers_raw.csv", "products_raw.csv"}
                   THEN deduped
                   ELSE {i \in deduped :
                            \A c \in Cells(df, df.rows[i]) : ~df.rows[i][c].na}
    IN  [file                 |-> file_name,
         records_processed    |-> n,
         duplicates_removed   |-> Cardinality(dups),
         missing_values_handled |-> Cardinality(nulls),
         records_loaded_successfully |-> Cardinality(cleaned)]

---------------------------------------------------------------------------
(* The pipeline: main() runs its stages one after the other.               *)

\* A file of this run: not yet written (what an earlier run left), or the
\* rows to_csv wrote
Stale == [written |-> FALSE, rows |-> <<>>]

Written(rows) == [written |-> TRUE, rows |-> rows]

\* load_csv: the frame read_csv gives, an empty frame without columns
\* when the file does not exist
NoFile == [exists |-> FALSE]

load_csv(file) == IF file = NoFile THEN NoFrame ELSE file

\* df[col] = f(df[col]) on the frame itself: KeyError, and nothing written,
\* when the frame has no such column
strip_column(df, col) ==
    [cols |-> df.cols,
     rows |-> MapRows(df.rows, LAMBDA r :
                  [r EXCEPT ![col] = strip_id_prefix(@)])]

\* The frame clean_customers was handed, as the call leaves it: the
\* assignment to customer_id and trim_string_columns write to the frame
\* itself, every later step works on a new frame
clean_customers_in_place(df) ==
    IF "customer_id" \notin df.cols THEN df
    ELSE [cols |-> df.cols,
          rows |-> trim_string_columns(strip_column(df, "customer_id").rows)]

\* The frame clean_products was handed, as the call leaves it
clean_products_in_place(df) ==
    IF "product_id" \notin df.cols THEN df
    ELSE [cols |-> df.cols,
          rows |-> trim_string_columns(strip_column(df, "product_id").rows)]

\* The frame clean_sales was handed, as the call leaves it: the three ids
\* are rewritten in turn up to the first column that is absent
clean_sales_in_place(df) ==
    IF "customer_id" \notin df.cols THEN df
    ELSE IF "product_id" \notin df.cols THEN strip_column(df, "customer_id")
    ELSE IF "transaction_id" \notin df.cols
    THEN strip_column(strip_column(df, "customer_id"), "product_id")
    ELSE [cols |-> df.cols,
          rows |-> trim_string_columns(
                       strip_column(strip_column(strip_column(
                           df, "customer_id"), "product_id"),
                           "transaction_id").rows)]

\* The frame df of split_orders after df['order_id'] = ... and
\* df['total_amount'] = ..., up to the first column that is absent
split_orders_in_place(df) ==
    IF "transaction_id" \notin df.cols THEN df
    ELSE IF ~({"quantity", "unit_price"} \subseteq df.cols)
    THEN [cols |-> df.cols \cup {"order_id"},
          rows |-> MapRows(df.rows, LAMBDA r :
                       [c \in DOMAIN r \cup {"order_id"} |->
                           IF c = "order_id" THEN r.transaction_id ELSE r[c]])]
    ELSE [cols |-> df.cols \cup {"order_id", "total_amount"},
          rows |-> MapRows(df.rows, LAMBDA r :
                       [c \in DOMAIN r \cup {"order_id", "total_amount"} |->
                           IF c = "order_id" THEN r.transaction_id
                           ELSE IF c = "total_amount"
                           THEN times(r.quantity, r.unit_price)
                           ELSE r[c]])]

\* DataFrame.copy() without the copy: the frame and its source are one
\* object, what is written to the one shows in the other
after_write_shared(source, written) == written

\* The source of a DataFrame.copy() once the copy was written to: copy()
\* is deep, the source keeps its data
after_write(source, written) == source

\* customers, products, sales, customers_raw, products_raw, sales_raw =
\* extract_raw_data()
ExtractRawData ==
    /\ pc = "extract_raw_data"
    /\ customers_raw' = load_csv(customers_raw_csv)
    /\ customers' = customers_raw'
    /\ products_raw' = load_csv(products_raw_csv)
    /\ products' = products_raw'
    /\ sales_raw' = load_csv(sales_raw_csv)
    /\ sales' = sales_raw'
    /\ pc' = "clean_customers"
    /\ UNCHANGED <<dbenv, db, customers_raw_csv, products_raw_csv,
                   sales_raw_csv, customers_clean, products_clean,
                   sales_clean, orders, order_items, orders_csv,
                   order_items_csv, dblog, report>>

\* A cleaner that returns nothing when its load had no connection
Returned_connected(out, ld) ==
    IF ld.raised \/ ld.log = << <<"connect", "failed">> >> THEN Failed ELSE out

\* What a cleaner or decomposer returns once it has called its load: an
\* exception of the load is caught by the except clause of the caller
Returned(out, ld) == IF ld.raised THEN Failed ELSE out

\* clean_customers(customers) if an exception of the load left main()
CleanCustomers_propagates ==
    /\ pc = "clean_customers"
    /\ \E out \in {clean_customers(customers)} :
       \E ld \in {load_data_to_customers_db(out.rows, dbenv["customers"], db)} :
           /\ ~(out.ok /\ ld.raised)
           /\ customers_clean' = out
           /\ dblog' = dblog \o (IF out.ok THEN ld.log ELSE <<>>)
           /\ db' = IF out.ok THEN ld.db ELSE db
    /\ customers' = clean_customers_in_place(customers)
    /\ customers_raw' = after_write(customers_raw, customers')
    /\ pc' = "clean_products"
    /\ UNCHANGED <<dbenv, customers_raw_csv, products_raw_csv, sales_raw_csv,
                   products_raw, sales_raw, products, sales,
                   products_clean, sales_clean, orders, order_items,
                   orders_csv, order_items_csv, report>>

\* clean_customers(customers)
CleanCustomers ==
    /\ pc = "clean_customers"
    /\ \E out \in {clean_customers(customers)} :
       \E ld \in {load_data_to_customers_db(out.rows, dbenv["customers"], db)} :
           /\ customers_clean' = IF out.ok THEN Returned(out, ld) ELSE out
           /\ dblog' = dblog \o (IF out.ok THEN ld.log ELSE <<>>)
           /\ db' = IF out.ok THEN ld.db ELSE db
    /\ customers' = clean_customers_in_place(customers)
    /\ customers_raw' = after_write(customers_raw, customers')
    /\ pc' = "clean_products"
    /\ UNCHANGED <<dbenv, customers_raw_csv, products_raw_csv, sales_raw_csv,
                   products_raw, sales_raw, products, sales,
                   products_clean, sales_clean, orders, order_items,
                   orders_csv, order_items_csv, report>>

\* clean_products(products)
CleanProducts ==
    /\ pc = "clean_products"
    /\ \E out \in {clean_products(products)} :
       \E ld \in {load_data_to_products_db(out.rows, dbenv["products"], db)} :
           /\ products_clean' = IF out.ok THEN Returned(out, ld) ELSE out
           /\ dblog' = dblog \o (IF out.ok THEN ld.log ELSE <<>>)
           /\ db' = IF out.ok THEN ld.db ELSE db
    /\ products' = clean_products_in_place(products)
    /\ products_raw' = after_write(products_raw, products')
    /\ pc' = "clean_sales"
    /\ UNCHANGED <<dbenv, customers_raw_csv, products_raw_csv, sales_raw_csv,
                   customers_raw, sales_raw, customers, sales,
                   customers_clean, sales_clean, orders, order_items,
                   orders_csv, order_items_csv, report>>

\* clean_sales(sales) followed by split_sales_to_order_items, split_orders
\* left out
CleanSales_skips ==
    /\ pc = "clean_sales"
    /\ sales_clean' = clean_sales(sales)
    /\ sales' = clean_sales_in_place(sales)
    /\ sales_raw' = after_write(sales_raw, sales')
    /\ pc' = "split_sales_to_order_items"
    /\ UNCHANGED <<dbenv, db, customers_raw_csv, products_raw_csv,
                   sales_raw_csv, customers_raw, products_raw, customers,
                   products, customers_clean, products_clean, orders,
                   order_items, orders_csv, order_items_csv, dblog, report>>

\* sales_clean = clean_sales(sales)
CleanSales ==
    /\ pc = "clean_sales"
    /\ sales_clean' = clean_sales(sales)
    /\ sales' = clean_sales_in_place(sales)
    /\ sales_raw' = after_write(sales_raw, sales')
    /\ pc' = "split_orders"
    /\ UNCHANGED <<dbenv, db, customers_raw_csv, products_raw_csv,
                   sales_raw_csv, customers_raw, products_raw, customers,
                   products, customers_clean, products_clean, orders,
                   order_items, orders_csv, order_items_csv, dblog, report>>

\* split_orders(sales_clean): it writes to a copy of sales_clean
SplitOrders ==
    /\ pc = "split_orders"
    /\ \E out \in {split_orders(sales_clean)} :
       \E ld \in {load_data_to_orders_db(out.rows, dbenv["orders"], db)} :
           /\ orders' = IF out.ok THEN Returned(out, ld) ELSE out
           /\ orders_csv' = IF out.ok THEN Written(out.rows) ELSE orders_csv
           /\ dblog' = dblog \o (IF out.ok THEN ld.log ELSE <<>>)
           /\ db' = IF out.ok THEN ld.db ELSE db
    /\ sales_clean' = after_write(sales_clean,
                                  split_orders_in_place(sales_clean))
    /\ pc' = "split_sales_to_order_items"
    /\ UNCHANGED <<dbenv, customers_raw_csv, products_raw_csv, sales_raw_csv,
                   customers_raw, products_raw, sales_raw, customers,
                   products, sales, customers_clean, products_clean,
                   order_items, order_items_csv, report>>

\* split_sales_to_order_items(sales_clean)
SplitOrderItems ==
    /\ pc = "split_sales_to_order_items"
    /\ \E out \in {split_sales_to_order_items(sales_clean)} :
       \E ld \in {load_data_to_order_items_db(out.rows, dbenv["order_items"], db)} :
           /\ order_items' = IF out.ok THEN Returned(out, ld) ELSE out
           /\ order_items_csv' =
                  IF out.ok THEN Written(out.rows) ELSE order_items_csv
           /\ dblog' = dblog \o (IF out.ok THEN ld.log ELSE <<>>)
           /\ db' = IF out.ok THEN ld.db ELSE db
    /\ pc' = "write_data_quality_report"
    /\ UNCHANGED <<dbenv, customers_raw_csv, products_raw_csv, sales_raw_csv,
                   customers_raw, products_raw, sales_raw, customers,
                   products, sales, customers_clean, products_clean,
                   sales_clean, orders, orders_csv, report>>

\* write_data_quality_report(customers_raw, products_raw, sales_raw)
WriteReport ==
    /\ pc = "write_data_quality_report"
    /\ report' = <<build_quality_report(customers_raw, "customers_raw.csv"),
                    build_quality_report(products_raw, "products_raw.csv"),
                    build_quality_report(sales_raw, "sales_raw.csv")>>
    /\ pc' = "done"
    /\ UNCHANGED <<dbenv, db, customers_raw_csv, products_raw_csv,
                   sales_raw_csv, customers_raw, products_raw, sales_raw,
                   customers, products, sales, customers_clean,
                   products_clean, sales_clean, orders, order_items,
                   orders_csv, order_items_csv, dblog>>

Next ==
    \/ ExtractRawData
    \/ CleanCustomers
    \/ CleanProducts
    \/ CleanSales
    \/ SplitOrders
    \/ SplitOrderItems
    \/ WriteReport

---------------------------------------------------------------------------
(* The raw files of a run.  read_csv reads an empty field as NaN and keeps *)
(* surrounding blanks; a file that does not exist gives an empty frame     *)
(* without columns.                                                        *)

\* The frame of the rows f[1], f[2], ... labelled 0, 1, ...
Frame(cols, f) ==
    [cols |-> cols,
     rows |-> [i \in DOMAIN f |-> [f[i] EXCEPT !.idx = i - 1]]]

Ch(a, b) == Str(<<a, b>>)

CustomerIds == {NA, Ch("C", "1"), Ch("X", "1"), Ch("C", "2"),
                Str(<<"C", "1", " ">>)}

Emails == {NA, Str(<<" ">>), Str(<<"a">>), Str(<<"b", " ">>),
           Str(UnknownEmail \o <<"2">>)}

CustomerRows == [idx : {0}, customer_id : CustomerIds, email : Emails]

Toys == Str(<<"T", "o", "y", "s">>)

ProductIds == {Ch("P", "1"), Str(<<"Q", "1", " ">>), Ch("P", "2"),
               Ch("P", "3")}

\* The price and the stock quantity of one product row
Amounts ==
    {<<NaN, Num(1)>>, <<Num(0 - 5), NaN>>, <<Num(10), Num(1)>>,
     <<Num(30), Num(2)>>}

ProductRows ==
    {[idx |-> 0, product_id |-> p, category |-> Toys, price |-> a[1],
      stock_quantity |-> a[2]] :
        p \in ProductIds, a \in Amounts}

SalesCols ==
    {"transaction_id", "customer_id", "product_id", "quantity", "unit_price",
     "transaction_date"}

Date1 == Str(<<"1", "5", "/", "0", "3", "/", "2", "0", "2", "3">>)

Date2 == Str(<<"0", "3", "-", "1", "5", "-", "2", "0", "2", "3">>)

Completed == Str(<<"C", "o", "m", "p", "l", "e", "t", "e", "d">>)

\* Sales rows whose keys vary
SalesKeyRows ==
    [idx : {0},
     transaction_id : {NA, Ch("T", "1"), Ch("U", "1"), Ch("T", "2"),
                       Str(<<"T", "1", " ">>)},
     customer_id : {NA, Ch("C", "1")},
     product_id : {NA, Ch("P", "1")},
     quantity : {Num(3)}, unit_price : {Num(5)},
     transaction_date : {Date1}, status : {Completed}]

\* Sales rows whose amounts, dates and statuses vary
SalesAmountRows ==
    [idx : {0},
     transaction_id : {Ch("T", "1"), Ch("T", "2")},
     customer_id : {Ch("C", "1")},
     product_id : {Ch("P", "1")},
     quantity : {NaN, Num(1), Num(3)}, unit_price : {NaN, Num(5)},
     transaction_date : {Date1, Date2}, status : {NA, Completed}]

\* A frame without its status column: its rows hold no status
DropStatus(df) ==
    [cols |-> df.cols \ {"status"},
     rows |-> MapRows(df.rows, LAMBDA r : [r EXCEPT !.status = NA])]

SomeCustomers ==
    [cols |-> CustomerCols,
     rows |-> << [idx |-> 0, customer_id |-> Ch("C", "1"),
                  email |-> Str(<<"a">>)] >>]

SomeProducts ==
    [cols |-> ProductCols,
     rows |-> << [idx |-> 0, product_id |-> Ch("P", "1"),
                  category |-> Toys, price |-> Num(10),
                  stock_quantity |-> Num(1)] >>]

SomeSales ==
    [cols |-> SalesCols \cup {"status"},
     rows |-> << [idx |-> 0, transaction_id |-> Ch("T", "1"),
                  customer_id |-> NA, product_id |-> Ch("P", "1"),
                  quantity |-> Num(3), unit_price |-> Num(5),
                  transaction_date |-> Date1, status |-> Completed],
                 [idx |-> 1, transaction_id |-> Ch("T", "2"),
                  customer_id |-> Ch("C", "1"), product_id |-> Ch("P", "1"),
                  quantity |-> Num(3), unit_price |-> Num(5),
                  transaction_date |-> Date1, status |-> Completed] >>]

\* The same outcome at every load of the run
UniformEnvs == {[t \in Tables |-> o] : o \in {"ok", "noconn", "error"}}

\* A database whose tables exist and hold no row
Created == [schema |-> TRUE, rows |-> [t \in Tables |-> "none"]]

\* A database without tables
Fresh == [schema |-> FALSE, rows |-> [t \in Tables |-> "none"]]

\* A database that holds what an earlier run loaded
Populated == [schema |-> TRUE, rows |-> [t \in Tables |-> "old"]]

\* The state main() starts in: nothing is read, cleaned or written yet
Started ==
    /\ pc = "extract_raw_data"
    /\ customers_raw = NoFrame
    /\ products_raw = NoFrame
    /\ sales_raw = NoFrame
    /\ customers = NoFrame
    /\ products = NoFrame
    /\ sales = NoFrame
    /\ customers_clean = Failed
    /\ products_clean = Failed
    /\ sales_clean = NoFrame
    /\ orders = Failed
    /\ order_items = Failed
    /\ orders_csv = Stale
    /\ order_items_csv = Stale
    /\ dblog = <<>>
    /\ report = <<>>

\* Runs over every customers file
InitCustomers ==
    /\ Started
    /\ db = Created
    /\ dbenv \in UniformEnvs
    /\ \/ \E n \in 0..MaxCustomers : \E f \in [1..n -> CustomerRows] :
              customers_raw_csv = Frame(CustomerCols, f)
       \/ customers_raw_csv \in
              {NoFile, [SomeCustomers EXCEPT !.cols = @ \ {"city"}]}
    /\ products_raw_csv = SomeProducts
    /\ sales_raw_csv = SomeSales

SpecCustomers == InitCustomers /\ [][Next]_vars

\* Runs over every products file
InitProducts ==
    /\ Started
    /\ db = Created
    /\ dbenv = [t \in Tables |-> "ok"]
    /\ customers_raw_csv = SomeCustomers
    /\ \/ \E n \in 0..MaxProducts : \E f \in [1..n -> ProductRows] :
              products_raw_csv = Frame(ProductCols, f)
       \/ products_raw_csv \in
              {NoFile, [SomeProducts EXCEPT !.cols = @ \ {"price"}]}
    /\ sales_raw_csv = SomeSales

SpecProducts == InitProducts /\ [][Next]_vars

\* Runs over every customers file and over every products file
InitReference == InitCustomers \/ InitProducts

SpecReference == InitReference /\ [][Next]_vars

\* Runs over every sales file of varying keys
InitSales ==
    /\ Started
    /\ db = Created
    /\ dbenv \in UniformEnvs
    /\ customers_raw_csv = SomeCustomers
    /\ products_raw_csv = SomeProducts
    /\ \/ \E n \in 0..MaxSales : \E f \in [1..n -> SalesKeyRows] :
              sales_raw_csv = Frame(SalesCols \cup {"status"}, f)
       \/ sales_raw_csv = NoFile

SpecSales == InitSales /\ [][Next]_vars

\* Runs over every sales file of varying amounts, with and without the
\* optional status column
InitOrders ==
    /\ Started
    /\ db = Created
    /\ dbenv = [t \in Tables |-> "ok"]
    /\ customers_raw_csv = SomeCustomers
    /\ products_raw_csv = SomeProducts
    /\ \/ \E n \in 0..MaxSales : \E f \in [1..n -> SalesAmountRows] :
              \/ sales_raw_csv = Frame(SalesCols \cup {"status"}, f)
              \/ sales_raw_csv = DropStatus(Frame(SalesCols \cup {"status"}, f))
       \/ sales_raw_csv = [SomeSales EXCEPT !.cols = @ \ {"quantity"}]

SpecOrders == InitOrders /\ [][Next]_vars

\* n in two digits, y in four
Two(n) == <<Digits[(n \div 10) + 1], Digits[(n % 10) + 1]>>

Four(y) == Two(y \div 100) \o Two(y % 100)

\* a/b/y, a-b-y and y-a-b as written in a file
Slash(a, b, y) == Str(Two(a) \o <<"/">> \o Two(b) \o <<"/">> \o Four(y))

Dash(a, b, y) == Str(Two(a) \o <<"-">> \o Two(b) \o <<"-">> \o Four(y))

Iso(y, m, d) == Str(Four(y) \o <<"-">> \o Two(m) \o <<"-">> \o Two(d))

\* Strings no format matches and pandas reads no date from
NotADate ==
    {Str(<<"n", "o", "t", " ", "a", " ", "d", "a", "t", "e">>),
     Str(<<"a", "b", "c">>)}

\* Days and months up to 12, and the years, of the dates of the files
UpTo12 == {1, 3, 12}

Years == {2023, 2024}

\* The transaction dates of the files: ambiguous and unambiguous dates in
\* each of the five formats, without zero padding, year first with
\* slashes, no date, and a missing one
DateStrings ==
    {Slash(a, b, y) : a \in UpTo12, b \in UpTo12, y \in Years} \cup
    {Dash(a, b, y) : a \in UpTo12, b \in UpTo12, y \in Years} \cup
    {Iso(y, m, d) : m \in UpTo12, d \in UpTo12, y \in Years} \cup
    {Slash(15, 3, 2023), Dash(3, 15, 2023), Dash(13, 5, 2023),
     Slash(3, 15, 2023), Iso(2024, 2, 29), Iso(2023, 3, 15),
     Str(<<"1", "/", "2", "/", "2", "0", "2", "3">>),
     Str(<<"1", "-", "2", "-", "2", "0", "2", "3">>),
     Str(<<"2", "0", "2", "3", "-", "3", "-", "5">>),
     Str(<<"2", "0", "2", "3", "/", "0", "3", "/", "1", "5">>), NA} \cup
    NotADate

\* Runs over a sales file of one transaction, over every date
InitDates ==
    /\ Started
    /\ db = Created
    /\ dbenv = [t \in Tables |-> "ok"]
    /\ customers_raw_csv = SomeCustomers
    /\ products_raw_csv = SomeProducts
    /\ \E date \in DateStrings :
           sales_raw_csv =
               [cols |-> SalesCols \cup {"status"},
                rows |-> << [idx |-> 0, transaction_id |-> Ch("T", "1"),
                             customer_id |-> Ch("C", "1"),
                             product_id |-> Ch("P", "1"),
                             quantity |-> Num(3), unit_price |-> Num(5),
                             transaction_date |-> date,
                             status |-> Completed] >>]

SpecDates == InitDates /\ [][Next]_vars

\* The categories of the files: each keyword in several cases, alone, inside
\* a longer name and together with another keyword, names without a
\* keyword, a blank name and a missing one
Categories ==
    {Str(<<"e", "l", "e", "c", "t", "r", "o", "n", "i", "c", "s">>),
     Str(<<"E", "l", "e", "c", "t", "r", "o", "n", "i", "c", "s">>),
     Str(<<"E", "L", "E", "C", "T", "R", "O", "N", "I", "C", "S">>),
     Str(<<" ", "E", "l", "e", "c", "t", "r", "o", "n", "i", "c", " ">>),
     Str(<<"c", "o", "n", "s", "u", "m", "e", "r", " ", "e", "l", "e", "c", "t", "r", "o", "n", "i", "c", "s">>),
     Str(<<"f", "a", "s", "h", "i", "o", "n">>),
     Str(<<"F", "A", "S", "H", "I", "O", "N">>),
     Str(<<"F", "a", "s", "h", "i", "o", "n">>),
     Str(<<"m", "e", "n", "s", " ", "f", "a", "s", "h", "i", "o", "n">>),
     Str(<<"g", "r", "o", "c", "e", "r", "y">>),
     Str(<<"G", "r", "o", "c", "e", "r", "i", "e", "s">>),
     Str(<<"G", "R", "O", "C", "E", "R">>),
     Str(<<"f", "a", "s", "h", "i", "o", "n", " ", "e", "l", "e", "c", "t", "r", "o", "n", "i", "c", "s">>),
     Str(<<"g", "r", "o", "c", "e", "r", "y", " ", "f", "a", "s", "h", "i", "o", "n">>),
     Str(<<"E", "l", "e", "c", "t", "r", "o", "n", "i", "c", " ", "G", "r", "o", "c", "e", "r">>),
     Str(<<"h", "o", "m", "e", " ", "d", "e", "c", "o", "r">>),
     Str(<<"T", "O", "Y", "S">>),
     Str(<<"T", "o", "y", "s">>),
     Str(<<"e", "-", "b", "i", "k", "e", "s">>),
     Str(<<"s", "p", "o", "r", "t", "s", " ", " ", "G", "E", "A", "R">>),
     Str(<<" ">>),
     NA}

\* Runs over a products file of one product, over every category
InitCategories ==
    /\ Started
    /\ db = Created
    /\ dbenv = [t \in Tables |-> "ok"]
    /\ customers_raw_csv = SomeCustomers
    /\ \E cat \in Categories :
           products_raw_csv =
               [SomeProducts EXCEPT !.rows[1].category = cat]
    /\ sales_raw_csv = SomeSales

SpecCategories == InitCategories /\ [][Next]_vars

\* Runs over a sales file of one transaction whose customer and product
\* are, or are not, in the customers and products files
InitOrphans ==
    /\ Started
    /\ db \in {Created, Populated}
    /\ dbenv \in UniformEnvs
    /\ customers_raw_csv = SomeCustomers
    /\ products_raw_csv = SomeProducts
    /\ \E c \in {NA, Ch("C", "1"), Ch("C", "2")} :
       \E p \in {NA, Ch("P", "1"), Ch("P", "2")} :
           sales_raw_csv =
               [cols |-> SalesCols \cup {"status"},
                rows |-> << [idx |-> 0, transaction_id |-> Ch("T", "1"),
                             customer_id |-> c, product_id |-> p,
                             quantity |-> Num(3), unit_price |-> Num(5),
                             transaction_date |-> Date1,
                             status |-> Completed] >>]

SpecOrphans == InitOrphans /\ [][Next]_vars

\* A file without one of its required columns
MissingColumn(df, col) == [df EXCEPT !.cols = @ \ {col}]

\* A file that holds its header line and no row
HeaderOnly(df) == [df EXCEPT !.rows = <<>>]

\* Runs over files that exist or not, with and without their columns and
\* rows, against every database
InitSchema ==
    /\ Started
    /\ dbenv \in UniformEnvs
    /\ db \in {Fresh, Created, Populated}
    /\ customers_raw_csv \in
           {SomeCustomers, NoFile, MissingColumn(SomeCustomers, "city"),
            HeaderOnly(SomeCustomers)}
    /\ products_raw_csv \in
           {SomeProducts, NoFile, MissingColumn(SomeProducts, "price"),
            HeaderOnly(SomeProducts)}
    /\ sales_raw_csv \in
           {SomeSales, NoFile, MissingColumn(SomeSales, "quantity"),
            HeaderOnly(SomeSales)}

SpecSchema == InitSchema /\ [][Next]_vars

\* Runs in which files are missing or lack a column and connections,
\* cursors and inserts fail, in every combination
InitFailures ==
    /\ Started
    /\ dbenv \in [Tables -> {"ok", "noconn", "error", "cursor"}]
    /\ db = Populated
    /\ customers_raw_csv \in {SomeCustomers, NoFile}
    /\ products_raw_csv \in
           {SomeProducts, MissingColumn(SomeProducts, "price")}
    /\ sales_raw_csv \in
           {SomeSales, NoFile, MissingColumn(SomeSales, "quantity")}

\* main() is one thread that runs to its end: a statement that can run
\* does run
FairFailures == InitFailures /\ [][Next]_vars /\ WF_vars(Next)

\* Product rows that repeat, with and without a missing price or stock
ReportProductRows ==
    {r \in ProductRows :
        /\ r.product_id \in {Ch("P", "1"), Ch("P", "2")}
        /\ <<r.price, r.stock_quantity>> \in
               {<<NaN, Num(1)>>, <<Num(10), Num(1)>>}}

\* Runs over every customers file, every sales file and the products
\* files of repeating rows
InitReport ==
    \/ InitCustomers
    \/ InitSales
    \/ /\ Started
       /\ db = Created
       /\ dbenv = [t \in Tables |-> "ok"]
       /\ customers_raw_csv = SomeCustomers
       /\ \E n \in 0..MaxProducts : \E f \in [1..n -> ReportProductRows] :
              products_raw_csv = Frame(ProductCols, f)
       /\ sales_raw_csv = SomeSales

SpecReport == InitReport /\ [][Next]_vars

\* What goes wrong at the loads of a run: at two of them at most, and a
\* CREATE TABLE only where one is issued
Envs ==
    {e \in [Tables -> DbOutcomes] :
        /\ \A t \in Tables \ {"customers"} : e[t] /= "create"
        /\ Cardinality({t \in Tables : e[t] /= "ok"}) <= 2}

\* Runs over a few files, every database and every behaviour of the loads
Init ==
    /\ Started
    /\ dbenv \in Envs
    /\ db \in {Fresh, Created, Populated}
    /\ customers_raw_csv \in {SomeCustomers, NoFile}
    /\ products_raw_csv \in {SomeProducts, NoFile}
    /\ sales_raw_csv \in {SomeSales, DropStatus(SomeSales), NoFile}

Spec == Init /\ [][Next]_vars

---------------------------------------------------------------------------
(* Properties.                                                             *)

\* s without its first character
PrefixStripped(val) ==
    IF val.na THEN val ELSE Str(SubSeq(val.v, 2, Len(val.v)))

\* s between its first and its last non-blank character
Trimmed(val) ==
    IF val.na THEN val
    ELSE LET ink == {i \in 1..Len(val.v) : val.v[i] /= " "}
         IN  IF ink = {} THEN Str(<<>>)
             ELSE Str(SubSeq(val.v, CHOOSE i \in ink : \A j \in ink : i <= j,
                             CHOOSE i \in ink : \A j \in ink : i >= j))

StrippedKey(val) == PrefixStripped(val)

CleanKey(val) == Trimmed(PrefixStripped(val))

\* out holds, in order, exactly the first row of raw for each value of
\* key(raw[i][col]), so as many rows as there are distinct values
OnePerKey(raw, out, col, key(_)) ==
    LET first == {i \in 1..Len(raw) :
                     \A j \in 1..(i - 1) : key(raw[j][col]) /= key(raw[i][col])}
    IN  /\ Len(out) = Cardinality({key(raw[i][col]) : i \in 1..Len(raw)})
        /\ \A k \in 1..Len(out) : out[k].idx + 1 \in first
        /\ \A k, l \in 1..Len(out) : k < l => out[k].idx < out[l].idx

\* The row of raw that out row r comes from
Source(raw, r) == raw[r.idx + 1]

\* A cleaned customer holds the email its raw row holds, if that holds one
CarriesCustomer(raw, r) ==
    LET e == Source(raw, r).email
    IN  (~e.na /\ Trimmed(e).v /= <<>>) => r.email = Trimmed(e)

\* A cleaned product holds the price and stock its raw row holds, if any
CarriesProduct(raw, r) ==
    /\ ~Source(raw, r).price.na => r.price = Source(raw, r).price
    /\ ~Source(raw, r).stock_quantity.na =>
           r.stock_quantity = Source(raw, r).stock_quantity

\* C1 as stated: clean_customers and clean_products return one row per
\* distinct prefix-stripped key of the input, the first row of each key,
\* in the order of first occurrence, with that row's values.
C1_OnePerStrippedKey ==
    /\ customers_clean.ok =>
           /\ OnePerKey(customers_raw.rows, customers_clean.rows,
                        "customer_id", StrippedKey)
           /\ \A k \in 1..Len(customers_clean.rows) :
                  CarriesCustomer(customers_raw.rows, customers_clean.rows[k])
    /\ products_clean.ok =>
           /\ OnePerKey(products_raw.rows, products_clean.rows,
                        "product_id", StrippedKey)
           /\ \A k \in 1..Len(products_clean.rows) :
                  CarriesProduct(products_raw.rows, products_clean.rows[k])

\* C1 (amended): clean_customers and clean_products return one row per
\* distinct key, the key being the raw id with its first character removed
\* and then trimmed of surrounding blanks: the first row of each key, in
\* the order of first occurrence, with that row's values; the key is
\* unique in the output and D distinct keys give D rows.
C1_OnePerCleanKey ==
    /\ customers_clean.ok =>
           /\ OnePerKey(customers_raw.rows, customers_clean.rows,
                        "customer_id", CleanKey)
           /\ \A k \in 1..Len(customers_clean.rows) :
                  /\ CarriesCustomer(customers_raw.rows,
                                     customers_clean.rows[k])
                  /\ customers_clean.rows[k].customer_id =
                         CleanKey(Source(customers_raw.rows,
                                         customers_clean.rows[k]).customer_id)
           /\ \A k, l \in 1..Len(customers_clean.rows) :
                  k /= l => customers_clean.rows[k].customer_id /=
                                customers_clean.rows[l].customer_id
    /\ products_clean.ok =>
           /\ OnePerKey(products_raw.rows, products_clean.rows,
                        "product_id", CleanKey)
           /\ \A k \in 1..Len(products_clean.rows) :
                  /\ CarriesProduct(products_raw.rows, products_clean.rows[k])
                  /\ products_clean.rows[k].product_id =
                         CleanKey(Source(products_raw.rows,
                                         products_clean.rows[k]).product_id)
           /\ \A k, l \in 1..Len(products_clean.rows) :
                  k /= l => products_clean.rows[k].product_id /=
                                products_clean.rows[l].product_id

\* C1 witness: two raw customers whose ids differ as written and share a
\* key were cleaned to the first of them, which kept its email
C1_Witness ==
    /\ customers_clean.ok
    /\ Len(customers_raw.rows) = 2
    /\ customers_raw.rows[1].customer_id /= customers_raw.rows[2].customer_id
    /\ Len(customers_clean.rows) = 1
    /\ customers_clean.rows[1].idx = 0
    /\ customers_clean.rows[1].email = Str(<<"a">>)
    /\ customers_raw.rows[2].email = Str(<<"b", " ">>)

C8_EmailUnique ==
    customers_clean.ok =>
        \A k, l \in 1..Len(customers_clean.rows) :
            k /= l => customers_clean.rows[k].email /=
                          customers_clean.rows[l].email

\* The statements of main() in the order it runs them
Stages ==
    <<"extract_raw_data", "clean_customers", "clean_products", "clean_sales",
      "split_orders", "split_sales_to_order_items",
      "write_data_quality_report", "done">>

\* main() has run stage s
Past(s) ==
    \E i, j \in 1..Len(Stages) : Stages[i] = s /\ Stages[j] = pc /\ i < j

\* clean_sales has returned the cleaned form of a sales file that has the
\* columns the pipeline requires
SalesCleaned == Past("clean_sales") /\ SalesCols \subseteq sales_raw.cols

\* sales_clean holds, in order, exactly the first row of sales_raw for each
\* value of key(transaction_id) whose customer_id and product_id are not
\* null; its transaction_ids are unique and no customer_id or product_id
\* is null
FirstValidPerKey(key(_)) ==
    LET raw   == sales_raw.rows
        out   == sales_clean.rows
        first == {i \in 1..Len(raw) :
                     \A j \in 1..(i - 1) :
                         key(raw[j].transaction_id) /= key(raw[i].transaction_id)}
        valid == {i \in first :
                     ~raw[i].customer_id.na /\ ~raw[i].product_id.na}
    IN  /\ Len(out) = Cardinality(valid)
        /\ \A k \in 1..Len(out) : out[k].idx + 1 \in valid
        /\ \A k, l \in 1..Len(out) : k < l => out[k].idx < out[l].idx
        /\ \A k, l \in 1..Len(out) :
               k /= l => out[k].transaction_id /= out[l].transaction_id
        /\ \A k \in 1..Len(out) :
               ~out[k].customer_id.na /\ ~out[k].product_id.na

\* C2 as stated: clean_sales returns, in original order, the first row of
\* each distinct prefix-stripped transaction_id, restricted to the rows
\* whose customer_id and product_id are not null; transaction_id is unique
\* and no customer_id or product_id is null.
C2_FirstValidPerStrippedKey == SalesCleaned => FirstValidPerKey(StrippedKey)

\* C2 (amended): clean_sales returns, in original order, the first row of
\* each distinct transaction_id, the id being compared with its first
\* character removed and then trimmed of surrounding blanks, restricted to
\* the rows whose customer_id and product_id are not null; transaction_id
\* is unique and no customer_id or product_id is null.
C2_FirstValidPerCleanKey ==
    SalesCleaned =>
        /\ FirstValidPerKey(CleanKey)
        /\ \A k \in 1..Len(sales_clean.rows) :
               LET r == sales_clean.rows[k]
                   s == Source(sales_raw.rows, r)
               IN  /\ r.transaction_id = CleanKey(s.transaction_id)
                   /\ r.customer_id = CleanKey(s.customer_id)
                   /\ r.product_id = CleanKey(s.product_id)

\* C2 witness: the first row of a transaction_id has a null customer_id
\* and a later row of the same id has none: clean_sales returned neither
C2_Witness ==
    /\ SalesCleaned
    /\ Len(sales_raw.rows) = 2
    /\ sales_raw.rows[1].customer_id.na
    /\ ~sales_raw.rows[2].customer_id.na
    /\ ~sales_raw.rows[2].product_id.na
    /\ ~sales_raw.rows[1].transaction_id.na
    /\ CleanKey(sales_raw.rows[1].transaction_id) =
           CleanKey(sales_raw.rows[2].transaction_id)
    /\ sales_clean.rows = <<>>

\* C3: the item derived from the k-th row of the cleaned sales sequence
\* has order_item_id = k, so n items have the ids 1..n.
C3_ItemIdIsPosition ==
    order_items.ok =>
        /\ Len(order_items.rows) = Len(sales_clean.rows)
        /\ \A k \in 1..Len(order_items.rows) :
               /\ order_items.rows[k].order_id =
                      sales_clean.rows[k].transaction_id
               /\ order_items.rows[k].order_item_id = k

\* C4: split_orders emits exactly one order per row of the cleaned sales
\* set: as many orders as cleaned transactions, the same set of ids, each
\* order with its transaction's customer_id and transaction_date.
C4_OneOrderPerTransaction ==
    (SalesCleaned /\ Past("split_orders")) =>
        /\ Len(orders.rows) = Len(sales_clean.rows)
        /\ {o.order_id : o \in Range(orders.rows)} =
               {s.transaction_id : s \in Range(sales_clean.rows)}
        /\ \A o \in Range(orders.rows) :
               \E s \in Range(sales_clean.rows) :
                   /\ o.order_id = s.transaction_id
                   /\ o.customer_id = s.customer_id
                   /\ o.order_date = s.transaction_date

Pending == Str(<<"P", "e", "n", "d", "i", "n", "g">>)

\* C5: every order split_orders produces has a status, and it is
\* "Pending" whenever the source transaction has none.
C5_StatusDefaultsToPending ==
    (SalesCleaned /\ Past("split_orders")) =>
        \A o \in Range(orders.rows) :
            LET s == Source(sales_raw.rows, o)
            IN  /\ ~o.status.na
                /\ ("status" \notin sales_raw.cols \/ s.status.na) =>
                       o.status = Pending

\* t is the product of q and p; missing when either is missing
IsProduct(t, q, p) ==
    IF q.na \/ p.na THEN t.na ELSE ~t.na /\ 2 * t.v = q.v * p.v

\* The cleaned sales row that r was derived from
Transaction(r) == CHOOSE s \in Range(sales_clean.rows) : s.idx = r.idx

\* C6: every order has total_amount = quantity * unit_price of its cleaned
\* sales row, every order item has subtotal = quantity * unit_price of
\* its row, and an order and an order item of the same transaction hold
\* the same amount.
C6_AmountsAreProducts ==
    /\ orders.ok =>
           \A o \in Range(orders.rows) :
               IsProduct(o.total_amount, Transaction(o).quantity,
                         Transaction(o).unit_price)
    /\ order_items.ok =>
           \A i \in Range(order_items.rows) :
               IsProduct(i.subtotal, Transaction(i).quantity,
                         Transaction(i).unit_price)
    /\ (orders.ok /\ order_items.ok) =>
           \A o \in Range(orders.rows), i \in Range(order_items.rows) :
               o.order_id = i.order_id => o.total_amount = i.subtotal

\* C6 witness: a transaction of quantity 3 and unit_price 5 gave an order
\* of total_amount 15 and an order item of subtotal 15
C6_Witness ==
    /\ orders.ok
    /\ order_items.ok
    /\ \E o \in Range(orders.rows), i \in Range(order_items.rows) :
           /\ o.order_id = i.order_id
           /\ i.quantity = Num(3)
           /\ i.unit_price = Num(5)
           /\ o.total_amount = Num(15)
           /\ i.subtotal = Num(15)

\* The raw product rows clean_products keeps: the first of each key
KeptProducts ==
    {i \in 1..Len(products_raw.rows) :
        \A j \in 1..(i - 1) :
            CleanKey(products_raw.rows[j].product_id) /=
                CleanKey(products_raw.rows[i].product_id)}

\* The median of the values present in column col of the kept raw rows
ExpectedMedian(col) ==
    LET I == {i \in KeptProducts : ~products_raw.rows[i][col].na}
        val(i) == products_raw.rows[i][col].v
        n == Cardinality(I)
        kth(k) == CHOOSE v \in {val(i) : i \in I} :
                      /\ Cardinality({i \in I : val(i) < v}) < k
                      /\ k <= Cardinality({i \in I : val(i) <= v})
    IN  IF n = 0 THEN NaN
        ELSE IF n % 2 = 1 THEN [na |-> FALSE, v |-> kth((n + 1) \div 2)]
        ELSE [na |-> FALSE, v |-> (kth(n \div 2) + kth(n \div 2 + 1)) \div 2]

\* C9: clean_products replaces every missing price and every missing
\* stock_quantity by the median of the values present in that column over
\* the deduplicated products, and leaves the values present unchanged.
C9_MedianOverDeduplicated ==
    products_clean.ok =>
        \A r \in Range(products_clean.rows) :
            LET s == Source(products_raw.rows, r)
            IN  /\ r.price =
                       IF s.price.na THEN ExpectedMedian("price") ELSE s.price
                /\ r.stock_quantity =
                       IF s.stock_quantity.na
                       THEN ExpectedMedian("stock_quantity")
                       ELSE s.stock_quantity

\* C9 witness: of three raw products the second duplicates the first and
\* holds price 30; the third had no price and got 10, the median of the
\* deduplicated prices, not 20, the median of the raw ones
C9_Witness ==
    /\ products_clean.ok
    /\ Len(products_raw.rows) = 3
    /\ products_raw.rows[1].price = Num(10)
    /\ products_raw.rows[2].price = Num(30)
    /\ products_raw.rows[3].price.na
    /\ Len(products_clean.rows) = 2
    /\ products_clean.rows[2].idx = 2
    /\ products_clean.rows[2].price = Num(10)

\* C10: every product clean_products returns has a non-null price >= 0
\* and a non-null integer stock_quantity >= 0.
C10_PriceAndStockValid ==
    products_clean.ok =>
        \A r \in Range(products_clean.rows) :
            /\ ~r.price.na
            /\ r.price.v >= 0
            /\ ~r.stock_quantity.na
            /\ r.stock_quantity.v >= 0
            /\ r.stock_quantity.v % 2 = 0

---------------------------------------------------------------------------
(* Failures.                                                               *)

\* A dataset a cleaner cannot work on: a required column is absent, or it
\* holds no row
SchemaFailure(df, required) == ~(required \subseteq df.cols) \/ df.rows = <<>>

\* The step leaves the database and the statements issued as they are
NoStorageAccess == dblog' = dblog /\ db' = db

\* C11: when an entity's raw dataset lacks a required column or is empty,
\* the stage of that entity issues no statement and leaves the database as
\* it is, and the other entities run as they would otherwise: after a
\* schema failure of the customers the products load issues the statements
\* it issues after a customers dataset that is clean.
C11_SchemaFailureIsolated ==
    [][/\ (pc = "clean_customers" /\ SchemaFailure(customers_raw, CustomerCols))
            => NoStorageAccess
       /\ (pc = "clean_products" /\ SchemaFailure(products_raw, ProductCols))
            => NoStorageAccess
       /\ (/\ pc \in {"split_orders", "split_sales_to_order_items"}
           /\ SchemaFailure(sales_raw, SalesCols))
            => NoStorageAccess
       /\ (pc = "clean_products" /\ SchemaFailure(customers_raw, CustomerCols))
            => LET otherwise ==
                       load_data_to_customers_db(
                           clean_customers(SomeCustomers).rows,
                           dbenv["customers"], db).db
                   expected ==
                       load_data_to_products_db(
                           clean_products(products_raw).rows,
                           dbenv["products"], otherwise)
               IN  dblog' = dblog \o expected.log]_vars


\* C12: whatever fails (a file that does not exist, a column a cleaner
\* requires, a connection, a cursor or an insert of any load), main() runs
\* every one of its stages and completes the quality report: no failure
\* leaves the stage that raised it.
C12_EveryStageRuns ==
    <>(pc = "done" /\ Len(report) = 3)

\* C12 witness: the report is complete at the end of a run in which the
\* customers file is missing, the products file lacks a column, the orders
\* load raised out of its cleanup and the order items insert failed.
C12_Witness ==
    /\ pc = "done" /\ Len(report) = 3
    /\ customers_raw_csv = NoFile
    /\ ~(ProductCols \subseteq products_raw.cols)
    /\ dbenv["orders"] = "cursor" /\ ~orders.ok /\ orders_csv.written
    /\ \E i \in 1..Len(dblog) : dblog[i] = <<"cursor failed", "orders">>
    /\ \E i \in 1..Len(dblog) : dblog[i][1] \in {"INSERT failed",
                                                     "DELETE failed"}


\* The statements the step issues
Issued == SubSeq(dblog', Len(dblog) + 1, Len(dblog'))

\* The step deletes nothing, inserts nothing and leaves every table as it is
NothingPersisted ==
    /\ db' = db
    /\ \A i \in 1..Len(Issued) :
           Issued[i][1] \notin {"DELETE", "DELETE failed", "INSERT",
                                 "INSERT failed", "commit"}

\* C13: when connect_to_db gives no connection, the load deletes nothing,
\* inserts nothing and leaves the tables as they are, the cleaner or
\* decomposer returns the dataset it derived, and orders.csv and
\* order_items.csv hold the derived rows.
C13_NoConnectionNoLoad ==
    [][/\ (pc = "clean_customers" /\ dbenv["customers"] = "noconn")
            => /\ NothingPersisted
               /\ customers_clean' = clean_customers(customers_raw)
       /\ (pc = "clean_products" /\ dbenv["products"] = "noconn")
            => /\ NothingPersisted
               /\ products_clean' = clean_products(products_raw)
       /\ (pc = "split_orders" /\ dbenv["orders"] = "noconn")
            => /\ NothingPersisted
               /\ orders' = split_orders(sales_clean)
               /\ orders'.ok => orders_csv' = Written(orders'.rows)
       /\ (pc = "split_sales_to_order_items"
               /\ dbenv["order_items"] = "noconn")
            => /\ NothingPersisted
               /\ order_items' = split_sales_to_order_items(sales_clean)
               /\ order_items'.ok =>
                      order_items_csv' = Written(order_items'.rows)]_vars

\* C13 witness: a run without a connection at the customers and the orders
\* load has ended: the customers and the orders are returned, orders.csv
\* holds an order, and both tables hold what the earlier run left.
C13_Witness ==
    /\ pc = "done"
    /\ dbenv["customers"] = "noconn" /\ dbenv["orders"] = "noconn"
    /\ customers_clean.ok /\ Len(customers_clean.rows) = 1
    /\ orders.ok /\ Len(orders.rows) = 1
    /\ orders_csv = Written(orders.rows)
    /\ db.rows["customers"] = "old" /\ db.rows["orders"] = "old"
    /\ \A i \in 1..Len(dblog) : dblog[i][2] \notin {"customers", "orders"}


---------------------------------------------------------------------------
(* Quality report.                                                         *)

\* The columns of the frame that row r holds a cell of
Columns(df, r) == (DOMAIN r \ {"idx"}) \cap df.cols

\* Row i of the frame equals an earlier row in every cell
ExactDuplicate(df, i) ==
    \E j \in 1..(i - 1) :
        \A c \in Columns(df, df.rows[i]) : df.rows[j][c] = df.rows[i][c]

\* The distinct rows of the frame, as the values of their cells
DistinctRows(df) ==
    {[c \in Columns(df, df.rows[i]) |-> df.rows[i][c]] : i \in 1..Len(df.rows)}

\* The number of null cells of row i
RECURSIVE NullsIn(_, _, _)
NullsIn(df, i, cs) ==
    IF cs = {} THEN 0
    ELSE LET c == CHOOSE c \in cs : TRUE
         IN  (IF df.rows[i][c].na THEN 1 ELSE 0) + NullsIn(df, i, cs \ {c})

\* The number of null cells of rows 1..n
RECURSIVE NullCells(_, _)
NullCells(df, n) ==
    IF n = 0 THEN 0
    ELSE NullsIn(df, n, Columns(df, df.rows[n])) + NullCells(df, n - 1)

\* The metrics of section r are those of frame df; dropped tells whether
\* rows with a null cell count as loaded
Measures(r, df, dropped) ==
    /\ r.records_processed = Len(df.rows)
    /\ r.duplicates_removed =
           Cardinality({i \in 1..Len(df.rows) : ExactDuplicate(df, i)})
    /\ r.missing_values_handled = NullCells(df, Len(df.rows))
    /\ r.records_loaded_successfully =
           Cardinality({row \in DistinctRows(df) :
                           dropped => \A c \in DOMAIN row : ~row[c].na})
    /\ ~dropped => r.records_loaded_successfully =
                       r.records_processed - r.duplicates_removed

\* C14: for each raw dataset build_quality_report gives the number of
\* rows, the number of rows that repeat an earlier row exactly, the number
\* of null cells, and the number of distinct rows (customers, products) or
\* of distinct rows without a null cell (sales); so for customers and
\* products loaded = processed - duplicates.
C14_ReportMetrics ==
    pc = "done" =>
        /\ Measures(report[1], customers_raw, FALSE)
        /\ Measures(report[2], products_raw, FALSE)
        /\ Measures(report[3], sales_raw, TRUE)

\* C14 witness: a report over customers with an exact duplicate row and a
\* null cell that counts as loaded, and over sales with a row dropped for
\* its null cell.
C14_Witness ==
    /\ pc = "done"
    /\ report[1].records_processed = 2 /\ report[1].duplicates_removed = 1
    /\ report[1].missing_values_handled = 2
    /\ report[1].records_loaded_successfully = 1
    /\ report[3].records_processed = 2 /\ report[3].duplicates_removed = 0
    /\ report[3].records_loaded_successfully = 1

\* A report over products with an exact duplicate row and a missing price
C14_WitnessProducts ==
    /\ pc = "done"
    /\ report[2].records_processed = 3 /\ report[2].duplicates_removed = 1
    /\ report[2].missing_values_handled = 1
    /\ report[2].records_loaded_successfully = 2


\* Two rows of the raw customers share a customer_id and some row has no
\* email
SharedIdAndMissingEmail ==
    /\ \E i, j \in 1..Len(customers_raw.rows) :
           /\ i # j
           /\ ~customers_raw.rows[i].customer_id.na
           /\ customers_raw.rows[i].customer_id =
                  customers_raw.rows[j].customer_id
    /\ \E i \in 1..Len(customers_raw.rows) : customers_raw.rows[i].email.na

\* C15: at the end of a run over raw customers with rows sharing a
\* customer_id and rows without email, the customers section of the report
\* gives as Records Loaded Successfully the number of rows of the customer
\* set produced by clean_customers.
C15_ReportCountsCleanCustomers ==
    (pc = "done" /\ customers_clean.ok /\ SharedIdAndMissingEmail) =>
        report[1].records_loaded_successfully = Len(customers_clean.rows)


---------------------------------------------------------------------------
(* Dates.                                                                  *)

\* clean_sales has run on a file of one transaction
DateCleaned ==
    /\ pc \in {"split_orders", "split_sales_to_order_items",
               "write_data_quality_report", "done"}
    /\ Len(sales_raw.rows) = 1 /\ Len(sales_clean.rows) = 1

\* C16: normalize_date_format gives the first parse among YYYY-MM-DD,
\* DD/MM/YYYY, MM-DD-YYYY, DD-MM-YYYY, MM/DD/YYYY as YYYY-MM-DD: a/b/yyyy
\* with a, b <= 12 is read day first, a-b-yyyy with a, b <= 12 month first,
\* a date only a later format reads is read by it, "15/03/2023" and
\* "03-15-2023" give "2023-03-15", a date in YYYY-MM-DD is returned
\* unchanged, the function is idempotent on its output, and a missing date
\* or a string that is no date gives null.
C16_DateFormats ==
    DateCleaned =>
        LET date == sales_raw.rows[1].transaction_date
            out  == sales_clean.rows[1].transaction_date
        IN  /\ \A a \in 1..12, b \in 1..12, y \in Years :
                   /\ date = Slash(a, b, y) => out = Iso(y, b, a)
                   /\ date = Dash(a, b, y) => out = Iso(y, a, b)
            /\ date \in {Slash(15, 3, 2023), Dash(3, 15, 2023),
                          Slash(3, 15, 2023)} => out = Iso(2023, 3, 15)
            /\ date = Dash(13, 5, 2023) => out = Iso(2023, 5, 13)
            /\ \A m \in 1..12, d \in 1..29, y \in Years :
                   (date = Iso(y, m, d) /\ (m = 2 /\ d = 29 => y = 2024))
                       => out = date
            /\ normalize_date_format(out) = out
            /\ (date.na \/ date \in NotADate) => out.na

\* C16 witness: the cleaned sales hold 2023-03-12 read day first from
\* "12/03/2023"; the same date read month first from "03-12-2023" is
\* C16_WitnessDash.
C16_Witness ==
    /\ DateCleaned
    /\ sales_raw.rows[1].transaction_date = Slash(12, 3, 2023)
    /\ sales_clean.rows[1].transaction_date = Iso(2023, 3, 12)

C16_WitnessDash ==
    /\ DateCleaned
    /\ sales_raw.rows[1].transaction_date = Dash(3, 12, 2023)
    /\ sales_clean.rows[1].transaction_date = Iso(2023, 3, 12)

\* A string that is no date gave a null date
C16_WitnessNull ==
    /\ DateCleaned
    /\ sales_raw.rows[1].transaction_date \in NotADate
    /\ sales_clean.rows[1].transaction_date.na


---------------------------------------------------------------------------
(* Categories.                                                             *)

\* clean_products has run on a file of one product
CategoryCleaned ==
    /\ pc \notin {"extract_raw_data", "clean_customers", "clean_products"}
    /\ Len(products_raw.rows) = 1

\* The name holds the word, whatever the case of its letters
Keyword(name, word) ==
    \E i \in 0..(Len(name) - Len(word)) :
        \A k \in 1..Len(word) : ToLower(name[i + k]) = word[k]

\* out is the trimmed name with a capital at each letter that follows no
\* letter and small letters elsewhere
TitleCased(out, name) ==
    /\ lower(out) = lower(strip(name))
    /\ \A i \in 1..Len(out) :
           IsLetter(out[i]) =>
               ((out[i] = ToUpper(out[i])) <=>
                    (i = 1 \/ ~IsLetter(out[i - 1])))

\* C17: normalize_category_name gives null for null; else, whatever the
\* case and the surrounding blanks, Electronics for a name containing
\* "electronic", else Fashion for one containing "fashion", else Groceries
\* for one containing "grocer", else the title case of the trimmed name; it
\* is idempotent and does not raise (clean_products returns its frame).
C17_CategoryPriority ==
    CategoryCleaned =>
        /\ products_clean.ok /\ Len(products_clean.rows) = 1
        /\ LET cat == products_raw.rows[1].category
               out == products_clean.rows[1].category
           IN  /\ out = normalize_category_name(cat)
               /\ cat.na => out.na
               /\ ~cat.na =>
                      /\ ~out.na
                      /\ IF Keyword(cat.v, <<"e", "l", "e", "c", "t", "r", "o", "n", "i", "c">>)
                         THEN out = Str(<<"E", "l", "e", "c", "t", "r", "o", "n", "i", "c", "s">>)
                         ELSE IF Keyword(cat.v, <<"f", "a", "s", "h", "i", "o", "n">>)
                         THEN out = Str(<<"F", "a", "s", "h", "i", "o", "n">>)
                         ELSE IF Keyword(cat.v, <<"g", "r", "o", "c", "e", "r">>)
                         THEN out = Str(<<"G", "r", "o", "c", "e", "r", "i", "e", "s">>)
                         ELSE TitleCased(out.v, cat.v)
               /\ cat = Str(<<"s", "p", "o", "r", "t", "s", " ", " ", "G", "E", "A", "R">>) => out = Str(<<"S", "p", "o", "r", "t", "s", " ", " ", "G", "e", "a", "r">>)
               /\ cat = Str(<<"e", "-", "b", "i", "k", "e", "s">>) => out = Str(<<"E", "-", "B", "i", "k", "e", "s">>)
               /\ cat = Str(<<"h", "o", "m", "e", " ", "d", "e", "c", "o", "r">>) => out = Str(<<"H", "o", "m", "e", " ", "D", "e", "c", "o", "r">>)
               /\ cat = Str(<<" ">>) => out = Str(<<>>)
               /\ normalize_category_name(out) = out

\* C17 witness: a name containing both "fashion" and "electronic", in that
\* order, was cleaned to Electronics.
C17_Witness ==
    /\ CategoryCleaned
    /\ products_raw.rows[1].category = Str(<<"f", "a", "s", "h", "i", "o", "n", " ", "e", "l", "e", "c", "t", "r", "o", "n", "i", "c", "s">>)
    /\ products_clean.rows[1].category = Str(<<"E", "l", "e", "c", "t", "r", "o", "n", "i", "c", "s">>)

\* A name without keyword was cleaned to its title case
C17_WitnessTitle ==
    /\ CategoryCleaned
    /\ products_raw.rows[1].category = Str(<<"h", "o", "m", "e", " ", "d", "e", "c", "o", "r">>)
    /\ products_clean.rows[1].category = Str(<<"H", "o", "m", "e", " ", "D", "e", "c", "o", "r">>)


---------------------------------------------------------------------------
(* Load operations.                                                        *)

\* Entries i..j of the log belong to one load operation
SameOperation(i, j) == \A k \in (i + 1)..j : dblog[k][1] # "connect"

\* Entry i of the log is a DELETE of table t, carried out or refused
DeleteOf(i, t) == dblog[i] \in {<<"DELETE", t>>, <<"DELETE failed", t>>}

\* C18: in every load operation (customers, products, orders, order
\* items) a table is deleted only after each table that references it was
\* deleted earlier in the same operation; the bulk insert follows the
\* deletes and the connection is released after it.
C18_DeletesChildToParent ==
    \A i \in 1..Len(dblog) :
        /\ \A t \in Tables :
               DeleteOf(i, t) =>
                   \A c \in Children(t) :
                       \E j \in 1..(i - 1) :
                           dblog[j] = <<"DELETE", c>> /\ SameOperation(j, i)
        /\ dblog[i][1] \in {"INSERT", "INSERT failed"} =>
               /\ i > 1 /\ dblog[i - 1] = <<"DELETE", dblog[i][2]>>
               /\ \E j \in (i + 1)..Len(dblog) :
                      dblog[j] = <<"close", dblog[i][2]>> /\ SameOperation(i, j)


---------------------------------------------------------------------------
(* Order of the stages.                                                    *)

\* The place of a table's load in a run
LoadRank(t) ==
    IF t = "customers" THEN 1 ELSE IF t = "products" THEN 2
    ELSE IF t = "orders" THEN 3 ELSE 4

\* Entry i of the log is a statement of the load of its table (a DELETE
\* names the table it empties, not the load)
LoadEntry(i) ==
    /\ dblog[i][1] \notin {"connect", "DELETE", "DELETE failed"}
    /\ dblog[i][2] \in Tables

\* No statement of a load follows a statement of a later load
LoadsInOrder ==
    \A i, j \in 1..Len(dblog) :
        (i < j /\ LoadEntry(i) /\ LoadEntry(j))
            => LoadRank(dblog[i][2]) <= LoadRank(dblog[j][2])

\* C19: every step of a run finishes one stage and makes the next one of
\* extraction, customers, products, sales, orders, order items, report the
\* current one; a stage's results change in its own step only; hence the
\* customers load precedes the orders load, and the products and orders
\* loads precede the order_items load.
C19_StagesInOrder ==
    [][/\ \E k \in 1..(Len(Stages) - 1) :
              pc = Stages[k] /\ pc' = Stages[k + 1]
       /\ <<customers_raw, products_raw, sales_raw>>' #
              <<customers_raw, products_raw, sales_raw>>
                  => pc = "extract_raw_data"
       /\ customers_clean' # customers_clean => pc = "clean_customers"
       /\ products_clean' # products_clean => pc = "clean_products"
       /\ sales_clean' # sales_clean => pc = "clean_sales"
       /\ <<orders, orders_csv>>' # <<orders, orders_csv>>
              => pc = "split_orders"
       /\ <<order_items, order_items_csv>>' # <<order_items, order_items_csv>>
              => pc = "split_sales_to_order_items"
       /\ report' # report => pc = "write_data_quality_report"
       /\ dblog' # dblog =>
              pc \in {"clean_customers", "clean_products", "split_orders",
                      "split_sales_to_order_items"}
       /\ LoadsInOrder']_vars

\* C19 witness: a finished run whose four loads inserted, customers first
\* and order items last.
C19_Witness ==
    /\ pc = "done" /\ Len(report) = 3
    /\ \E a, b, c, d \in 1..Len(dblog) :
           /\ a < b /\ b < c /\ c < d
           /\ dblog[a] = <<"INSERT", "customers">>
           /\ dblog[b] = <<"INSERT", "products">>
           /\ dblog[c] = <<"INSERT", "orders">>
           /\ dblog[d] = <<"INSERT", "order_items">>


---------------------------------------------------------------------------
(* Connections.                                                            *)

\* C20: every load operation that obtained a connection closes it before
\* it returns, whether cursor creation, table creation, a delete, the bulk
\* insert or the commit fails, or nothing does: once the step of a load is
\* over, each connection the log shows obtained is followed by its close
\* within the same operation.
C20_ConnectionClosed ==
    \A i \in 1..Len(dblog) :
        dblog[i] = <<"connect", "ok">> =>
            \E j \in (i + 1)..Len(dblog) :
                dblog[j][1] = "close" /\ SameOperation(i, j)


---------------------------------------------------------------------------
(* Table creation.                                                         *)

\* C21: every load operation (customers, products, orders, order items)
\* issues the creation of the tables before its first DELETE or INSERT, so
\* no DELETE or INSERT of a run is issued in an operation that did not
\* create the tables first.
C21_EveryLoadCreatesTables ==
    \A i \in 1..Len(dblog) :
        dblog[i][1] \in {"DELETE", "DELETE failed", "INSERT", "INSERT failed"}
            => \E j \in 1..(i - 1) :
                   /\ dblog[j][1] \in {"CREATE TABLE IF NOT EXISTS",
                                       "CREATE TABLE failed"}
                   /\ SameOperation(j, i)


---------------------------------------------------------------------------
(* Raw datasets.                                                           *)

\* C22: once read, customers_raw, products_raw and sales_raw stay what
\* extraction read from the files, through clean_customers, clean_products
\* and clean_sales, which rewrite columns of the frames they are handed;
\* and split_orders leaves the cleaned sales as they are, so that
\* split_sales_to_order_items receives the set split_orders received.
C22_RawNeverMutated ==
    [][/\ customers_raw' = load_csv(customers_raw_csv)
       /\ products_raw' = load_csv(products_raw_csv)
       /\ sales_raw' = load_csv(sales_raw_csv)
       /\ pc # "extract_raw_data" =>
              <<customers_raw, products_raw, sales_raw>>' =
                  <<customers_raw, products_raw, sales_raw>>
       /\ pc = "split_orders" => sales_clean' = sales_clean]_vars

\* C22 witness: at the end of a run the three cleaners have rewritten the
\* frames they were handed, split_orders has derived an order from a
\* cleaned transaction, and the report is written.
C22_Witness ==
    /\ pc = "done" /\ Len(report) = 3
    /\ customers # customers_raw /\ customers_raw = customers_raw_csv
    /\ products # products_raw /\ products_raw = products_raw_csv
    /\ sales # sales_raw /\ sales_raw = sales_raw_csv
    /\ orders.ok /\ Len(orders.rows) > 0 /\ Len(sales_clean.rows) > 0


---------------------------------------------------------------------------
(* Orders and order items of one run.                                      *)

\* C23: every order item of a run, as written to order_items.csv and
\* handed to the order_items load, carries the order_id of an order that
\* split_orders wrote to orders.csv and handed to the orders load in the
\* same run, also when split_orders failed and
\* split_sales_to_order_items did not.
C23_ItemsHaveOrders ==
    pc \in {"write_data_quality_report", "done"} =>
        \A i \in 1..Len(order_items_csv.rows) :
            \E o \in 1..Len(orders_csv.rows) :
                orders_csv.rows[o].order_id = order_items_csv.rows[i].order_id


---------------------------------------------------------------------------
(* Orphan transactions.                                                    *)

\* C24: every order that split_orders wrote and handed to the orders load
\* has the customer_id of a customer of the set clean_customers produced
\* in the run, and every order item that split_sales_to_order_items wrote
\* and handed to the order_items load has the product_id of a product of
\* the set clean_products produced in the run.
C24_NoOrphans ==
    pc \in {"write_data_quality_report", "done"} =>
        /\ \A o \in 1..Len(orders_csv.rows) :
               \E c \in 1..Len(clean_customers(customers_raw).rows) :
                   clean_customers(customers_raw).rows[c].customer_id =
                       orders_csv.rows[o].customer_id
        /\ \A i \in 1..Len(order_items_csv.rows) :
               \E p \in 1..Len(clean_products(products_raw).rows) :
                   clean_products(products_raw).rows[p].product_id =
                       order_items_csv.rows[i].product_id

===========================================================================
